---- MODULE Spec2Model ----
(***************************************************************************)
(* A model of the sdhook logrus hook: construction of a Hook from a list   *)
(* of options (New), and the asynchronous delivery of fired entries to the *)
(* Stackdriver logging API, the error reporting API or the logging agent.  *)
(*                                                                         *)
(* Strings are sequences of tokens: "" is <<>>, concatenation is \o.  The  *)
(* names of the logrus levels are spelled letter by letter, so that        *)
(* strings.ToUpper is computed and not assumed.                            *)
(***************************************************************************)
EXTENDS Integers, Sequences, FiniteSets, TLC

(***************************************************************************)
(* Bounds of the model.                                                    *)
(***************************************************************************)
MaxOpts == 3
MaxFires == 2
MaxEntryFires == 1
MaxCallerFires == 1
MaxMutations == 1

(***************************************************************************)
(* Strings.                                                                *)
(***************************************************************************)
EmptyStr == <<>>

Nil == "nil"

\* fmt.Sprintf("projects/%s/logs/%s", projectID, name)
SprintfLogName(projectID, name) ==
    <<"projects/">> \o projectID \o <<"/logs/">> \o name

defaultName == <<"default">>

UpperOf ==
    [c \in {"a", "b", "c", "d", "e", "f", "g", "i", "l", "n", "o", "p", "r", "t", "u", "w"} |->
        CASE c = "a" -> "A" [] c = "b" -> "B" [] c = "c" -> "C" [] c = "d" -> "D"
          [] c = "e" -> "E" [] c = "f" -> "F" [] c = "g" -> "G" [] c = "i" -> "I"
          [] c = "l" -> "L" [] c = "n" -> "N" [] c = "o" -> "O" [] c = "p" -> "P"
          [] c = "r" -> "R" [] c = "t" -> "T" [] c = "u" -> "U" [] c = "w" -> "W"]

\* strings.ToUpper: letters are mapped to upper case, anything else is kept
ToUpper(s) ==
    [i \in 1..Len(s) |-> IF s[i] \in DOMAIN UpperOf THEN UpperOf[s[i]] ELSE s[i]]

(***************************************************************************)
(* logrus levels and their names (logrus.Level.String).                    *)
(***************************************************************************)
PanicLevel == "panic"
FatalLevel == "fatal"
ErrorLevel == "error"
WarnLevel  == "warning"
InfoLevel  == "info"
DebugLevel == "debug"
TraceLevel == "trace"

AllLevels ==
    {PanicLevel, FatalLevel, ErrorLevel, WarnLevel, InfoLevel, DebugLevel, TraceLevel}

LevelString(l) ==
    CASE l = PanicLevel -> <<"p", "a", "n", "i", "c">>
      [] l = FatalLevel -> <<"f", "a", "t", "a", "l">>
      [] l = ErrorLevel -> <<"e", "r", "r", "o", "r">>
      [] l = WarnLevel  -> <<"w", "a", "r", "n", "i", "n", "g">>
      [] l = InfoLevel  -> <<"i", "n", "f", "o">>
      [] l = DebugLevel -> <<"d", "e", "b", "u", "g">>
      [] l = TraceLevel -> <<"t", "r", "a", "c", "e">>

\* severityString
severityString(l) ==
    CASE l = FatalLevel -> <<"c", "r", "i", "t", "i", "c", "a", "l">>
      [] l = PanicLevel -> <<"e", "m", "e", "r", "g", "e", "n", "c", "y">>
      [] OTHER -> ToUpper(LevelString(l))

isError_OnlyErrorLevel(level) ==
    level = ErrorLevel

\* isError, on the level of a non-nil entry
isError(level) ==
    level \in {ErrorLevel, FatalLevel, PanicLevel}

(***************************************************************************)
(* The Hook and its options.                                               *)
(***************************************************************************)
\* the zero Hook built at the top of New
ZeroHook ==
    [ projectID                 |-> EmptyStr,
      service                   |-> FALSE,
      errorService              |-> FALSE,
      resource                  |-> FALSE,
      logName                   |-> EmptyStr,
      labels                    |-> <<>>,
      partialSuccess            |-> FALSE,
      agentClient               |-> FALSE,
      errorReportingServiceName |-> EmptyStr,
      errorReportingLogName     |-> EmptyStr,
      logErrors                 |-> FALSE ]

\* the nil *Hook New returns with an error
NoHook == [nil |-> TRUE]

Opt(kind, arg) == [kind |-> kind, arg |-> arg]

\* the options that can fail by themselves (they create clients or parse
\* credentials); every other option returns nil
Fallible ==
    {"HTTPClient", "GoogleServiceAccountCredentialsJSON", "GoogleLoggingAgent"}

ProjectID(h, projectID) == [h EXCEPT !.projectID = projectID]

EntriesService(h) == [h EXCEPT !.service = TRUE]

ErrorService(h) == [h EXCEPT !.errorService = TRUE]

HTTPClient(h) == EntriesService(ErrorService(h))

MonitoredResource(h) == [h EXCEPT !.resource = TRUE]

LogName(h, name) ==
    IF h.projectID = EmptyStr
    THEN [h EXCEPT !.logName = name]
    ELSE [h EXCEPT !.logName = SprintfLogName(h.projectID, name)]

ErrorReportingLogName(h, name) == [h EXCEPT !.errorReportingLogName = name]

Labels(h, labels) == [h EXCEPT !.labels = labels]

PartialSuccess(h, enabled) == [h EXCEPT !.partialSuccess = enabled]

ErrorReportingService(h, service) ==
    [h EXCEPT !.errorReportingServiceName = service]

\* the project of the service account credentials
CredentialsProject == <<"p">>

GoogleServiceAccountCredentialsJSON(h) ==
    HTTPClient(MonitoredResource(ProjectID(h, CredentialsProject)))

GoogleLoggingAgent(h) == [h EXCEPT !.agentClient = TRUE]

\* the option LogErrors of the README
LogErrors(h, enabled) == [h EXCEPT !.logErrors = enabled]

\* o(h) for an option that returns nil
ApplyOption(h, o) ==
    CASE o.kind = "ProjectID"             -> ProjectID(h, o.arg)
      [] o.kind = "EntriesService"        -> EntriesService(h)
      [] o.kind = "ErrorService"          -> ErrorService(h)
      [] o.kind = "HTTPClient"            -> HTTPClient(h)
      [] o.kind = "MonitoredResource"     -> MonitoredResource(h)
      [] o.kind = "LogName"               -> LogName(h, o.arg)
      [] o.kind = "ErrorReportingLogName" -> ErrorReportingLogName(h, o.arg)
      [] o.kind = "Labels"                -> Labels(h, o.arg)
      [] o.kind = "PartialSuccess"        -> PartialSuccess(h, o.arg)
      [] o.kind = "ErrorReportingService" -> ErrorReportingService(h, o.arg)
      [] o.kind = "GoogleServiceAccountCredentialsJSON" ->
                                             GoogleServiceAccountCredentialsJSON(h)
      [] o.kind = "GoogleLoggingAgent"    -> GoogleLoggingAgent(h)
      [] o.kind = "LogErrors"             -> LogErrors(h, o.arg)

ValidationError_NoProjectCheck(h) ==
    IF ~h.service /\ ~h.agentClient
    THEN "no stackdriver service was provided"
    ELSE IF ~h.resource /\ ~h.agentClient
    THEN "the monitored resource was not provided"
    ELSE Nil

\* the three checks of New after the options were applied
ValidationError(h) ==
    IF ~h.service /\ ~h.agentClient
    THEN "no stackdriver service was provided"
    ELSE IF ~h.resource /\ ~h.agentClient
    THEN "the monitored resource was not provided"
    ELSE IF h.projectID = EmptyStr /\ ~h.agentClient
    THEN "the project id was not provided"
    ELSE Nil

\* the defaults of New: log name, then error reporting log name
ApplyDefaults_SuffixFirst(h) ==
    LET h1 == IF h.logName = EmptyStr THEN LogName(h, defaultName) ELSE h
    IN  IF h1.errorReportingLogName = EmptyStr
        THEN [h1 EXCEPT !.errorReportingLogName = h.logName \o <<"_errors">>]
        ELSE h1

ApplyDefaults(h) ==
    LET h1 == IF h.logName = EmptyStr THEN LogName(h, defaultName) ELSE h
    IN  IF h1.errorReportingLogName = EmptyStr
        THEN [h1 EXCEPT !.errorReportingLogName = h1.logName \o <<"_errors">>]
        ELSE h1

RECURSIVE ApplyAll(_, _)
ApplyAll(h, os) ==
    IF os = <<>> THEN h ELSE ApplyAll(ApplyOption(h, Head(os)), Tail(os))

\* New(opts...) when no option returns an error: <<hook, err>>
New(os) ==
    LET h == ApplyAll(ZeroHook, os)
    IN  IF ValidationError(h) # Nil
        THEN <<NoHook, ValidationError(h)>>
        ELSE <<ApplyDefaults(h), Nil>>

(***************************************************************************)
(* Entries: the values a logrus field can hold, and the conversions the    *)
(* delivery goroutine applies to them.                                     *)
(***************************************************************************)
StringV(s)     == [t |-> "string", s |-> s]
IntV(n)        == [t |-> "int", n |-> n]
RequestV(r)    == [t |-> "*http.Request", r |-> r]
DescriptorV(d) == [t |-> "*logging.HttpRequest", d |-> d]
FrameV(f)      == [t |-> "stack.Frame", f |-> f]

\* a nil pointer, an absent optional part
None == <<>>

Digit == <<"0", "1", "2", "3", "4", "5", "6", "7", "8", "9">>

\* strconv.FormatInt(n, 10) and %v of an integer, for n >= 0
RECURSIVE FormatInt(_)
FormatInt(n) ==
    IF n < 10 THEN <<Digit[n + 1]>> ELSE FormatInt(n \div 10) \o <<Digit[(n % 10) + 1]>>

\* fmt.Sprintf("%v", v) for the values that are neither strings nor HTTP
\* requests
SprintfV(v) ==
    CASE v.t = "int"         -> FormatInt(v.n)
      [] v.t = "stack.Frame" -> v.f.File \o <<":">> \o FormatInt(v.f.Line) \o <<" ">> \o v.f.Name

\* the logging.HttpRequest built from an inbound *http.Request
FromRequest(x) ==
    [ Referer       |-> x.Referer,
      RemoteIp      |-> x.RemoteAddr,
      RequestMethod |-> x.Method,
      RequestUrl    |-> x.URL.String,
      UserAgent     |-> x.UserAgent ]

IsHTTPValue(v) == v.t \in {"*http.Request", "*logging.HttpRequest"}

\* one iteration of the loop of Fire over entry.Data
NormalizeStep_SkipsStrings(acc, k, v) ==
    CASE v.t = "string"               -> acc
      [] v.t = "*http.Request"        -> [acc EXCEPT !.httpReq = FromRequest(v.r)]
      [] v.t = "*logging.HttpRequest" -> [acc EXCEPT !.httpReq = v.d]
      [] OTHER                        -> [acc EXCEPT !.labels = (k :> SprintfV(v)) @@ acc.labels]

NormalizeStep_FirstWins(acc, k, v) ==
    CASE v.t = "string"               -> [acc EXCEPT !.labels = (k :> v.s) @@ acc.labels]
      [] v.t = "*http.Request"        ->
           IF acc.httpReq = None THEN [acc EXCEPT !.httpReq = FromRequest(v.r)] ELSE acc
      [] v.t = "*logging.HttpRequest" ->
           IF acc.httpReq = None THEN [acc EXCEPT !.httpReq = v.d] ELSE acc
      [] OTHER                        -> [acc EXCEPT !.labels = (k :> SprintfV(v)) @@ acc.labels]

NormalizeStep_KeepsLastLabel(acc, k, v) ==
    CASE v.t = "string"               -> [acc EXCEPT !.labels = k :> v.s]
      [] v.t = "*http.Request"        -> [acc EXCEPT !.httpReq = FromRequest(v.r)]
      [] v.t = "*logging.HttpRequest" -> [acc EXCEPT !.httpReq = v.d]
      [] OTHER                        -> [acc EXCEPT !.labels = (k :> SprintfV(v)) @@ acc.labels]

NormalizeStep(acc, k, v) ==
    CASE v.t = "string"               -> [acc EXCEPT !.labels = (k :> v.s) @@ acc.labels]
      [] v.t = "*http.Request"        -> [acc EXCEPT !.httpReq = FromRequest(v.r)]
      [] v.t = "*logging.HttpRequest" -> [acc EXCEPT !.httpReq = v.d]
      [] OTHER                        -> [acc EXCEPT !.labels = (k :> SprintfV(v)) @@ acc.labels]

RECURSIVE NormalizeLoop(_, _, _)
NormalizeLoop(acc, data, order) ==
    IF order = <<>> THEN acc
    ELSE NormalizeLoop(NormalizeStep(acc, Head(order), data[Head(order)]), data, Tail(order))

\* the conversion of entry.Data to labels and an HTTP request; order is the
\* order in which range visits the keys of the map
Normalize(data, order) ==
    NormalizeLoop([labels |-> <<>>, httpReq |-> None], data, order)

\* the orders in which range can visit a map
Orders(S) ==
    {o \in [1..Cardinality(S) -> S] : \A i, j \in 1..Cardinality(S) : o[i] = o[j] => i = j}

\* m[k] of a Go map[string]string: the zero value when the key is absent
Lookup_Missing(m, k) == EmptyStr

Lookup(m, k) == IF k \in DOMAIN m THEN m[k] ELSE EmptyStr

\* entry.Time.Format(time.RFC3339): the nanoseconds are not printed
FormatRFC3339(t) == <<"RFC3339:">> \o FormatInt(t.sec)

(***************************************************************************)
(* The payloads.                                                           *)
(***************************************************************************)
\* buildErrorReportingEvent, when the type assertion on "caller" succeeds
buildErrorReportingEvent(h, entry, data, labels, httpReq) ==
    [ EventTime      |-> FormatRFC3339(entry.Time),
      Message        |-> entry.Message,
      ServiceContext |-> [ Service |-> h.errorReportingServiceName,
                           Version |-> Lookup(labels, "version") ],
      Context        |->
        [ User           |-> Lookup(labels, "user"),
          ReportLocation |->
            IF "caller" \in DOMAIN data
            THEN [ FilePath     |-> data["caller"].f.File,
                   FunctionName |-> data["caller"].f.Name,
                   LineNumber   |-> data["caller"].f.Line ]
            ELSE None,
          HttpRequest    |->
            IF httpReq # None
            THEN [ Method    |-> httpReq.RequestMethod,
                   Referrer  |-> httpReq.Referer,
                   RemoteIp  |-> httpReq.RemoteIp,
                   Url       |-> httpReq.RequestUrl,
                   UserAgent |-> httpReq.UserAgent ]
            ELSE None ] ]

\* entry.Data["caller"].(stack.Frame) panics on any other non-nil value
CallerPanics(data) ==
    "caller" \in DOMAIN data /\ data["caller"].t # "stack.Frame"

\* the URL of an *http.Request that has none
NilURL == [nil |-> TRUE]

\* x.URL.String() panics on a nil URL
RequestPanics(data) ==
    \E k \in DOMAIN data : data[k].t = "*http.Request" /\ data[k].r.URL = NilURL

\* a JSON object keeps a string member only when it is not empty (omitempty)
OmitEmpty(obj) ==
    [k \in {x \in DOMAIN obj : obj[x] # EmptyStr} |-> obj[k]]

\* a member that holds a pointer is kept unless the pointer is nil
Member(k, v) == IF v = None THEN <<>> ELSE k :> v

\* json.Marshal of the error event followed by json.Unmarshal into a map
ErrorJSONPayload(ev) ==
    LET loc == ev.Context.ReportLocation
        req == ev.Context.HttpRequest
        locJSON ==
            IF loc = None THEN None
            ELSE [ obj |-> OmitEmpty(
                     [ filePath     |-> loc.FilePath,
                       functionName |-> loc.FunctionName,
                       lineNumber   |-> IF loc.LineNumber = 0 THEN EmptyStr
                                        ELSE FormatInt(loc.LineNumber) ]) ]
        reqJSON ==
            IF req = None THEN None
            ELSE [ obj |-> OmitEmpty(
                     [ method    |-> req.Method,
                       referrer  |-> req.Referrer,
                       remoteIp  |-> req.RemoteIp,
                       url       |-> req.Url,
                       userAgent |-> req.UserAgent ]) ]
    IN  OmitEmpty([eventTime |-> ev.EventTime, message |-> ev.Message])
          @@ [ serviceContext |->
                 [ obj |-> OmitEmpty([ service |-> ev.ServiceContext.Service,
                                       version |-> ev.ServiceContext.Version ]) ],
               context |->
                 [ obj |-> OmitEmpty([user |-> ev.Context.User])
                             @@ Member("reportLocation", locJSON)
                             @@ Member("httpRequest", reqJSON) ] ]

\* the flat record of sendLogMessageViaAgent
AgentLogEntry(entry, labels, httpReq) ==
    LET base == [ severity         |-> severityString(entry.Level),
                  timestampSeconds |-> FormatInt(entry.Time.sec),
                  timestampNanos   |-> FormatInt(entry.Time.nsec),
                  message          |-> entry.Message ]
        withLabels == labels @@ base
    IN  IF httpReq # None THEN ("httpRequest" :> httpReq) @@ withLabels ELSE withLabels

\* a call made to a backend
Call(kind, logName, projectID, request) ==
    [kind |-> kind, logName |-> logName, projectID |-> projectID, request |-> request]

\* the call sendLogMessageViaAgent makes
sendLogMessageViaAgent(h, entry, data, labels, httpReq) ==
    LET logEntry == AgentLogEntry(entry, labels, httpReq)
    IN  IF h.errorReportingServiceName # EmptyStr /\ isError(entry.Level)
        THEN Call("Post", h.errorReportingLogName, EmptyStr,
                  logEntry @@ ErrorJSONPayload(
                      buildErrorReportingEvent(h, entry, data, labels, httpReq)))
        ELSE Call("Post", h.logName, EmptyStr, logEntry)

APILogName_Regular(h, level) == h.logName

\* the log name sendLogMessageViaAPI writes a plain entry to
APILogName(h, level) ==
    IF h.errorReportingLogName # EmptyStr /\ isError(level)
    THEN h.errorReportingLogName
    ELSE h.logName

\* the call sendLogMessageViaAPI makes; None when it only logs that the
\* error reporting service is not set
sendLogMessageViaAPI(h, entry, data, labels, httpReq) ==
    IF h.errorReportingServiceName # EmptyStr /\ isError(entry.Level)
    THEN IF h.errorService
         THEN Call("Report", EmptyStr, h.projectID,
                   buildErrorReportingEvent(h, entry, data, labels, httpReq))
         ELSE None
    ELSE Call("Write", APILogName(h, entry.Level), EmptyStr,
              [ Resource       |-> h.resource,
                Labels         |-> h.labels,
                PartialSuccess |-> h.partialSuccess,
                Entries        |-> << [ Severity    |-> severityString(entry.Level),
                                        Timestamp   |-> FormatRFC3339(entry.Time),
                                        TextPayload |-> entry.Message,
                                        Labels      |-> labels,
                                        HttpRequest |-> httpReq ] >> ])

Send_Drops(h, entry, data, labels, httpReq) == None

\* the body of the goroutine of Fire after the labels were built
Send(h, entry, data, labels, httpReq) ==
    IF h.agentClient
    THEN sendLogMessageViaAgent(h, entry, data, labels, httpReq)
    ELSE sendLogMessageViaAPI(h, entry, data, labels, httpReq)

\* both send functions build the error event first, under the same condition
BuildsErrorEvent(h, entry) ==
    h.errorReportingServiceName # EmptyStr /\ isError(entry.Level)

\* the goroutine of Fire panics: in the loop over entry.Data, or in
\* buildErrorReportingEvent
TaskPanics(h, entry, data) ==
    RequestPanics(data) \/ (BuildsErrorEvent(h, entry) /\ CallerPanics(data))

(***************************************************************************)
(* The inputs: options, hooks and entries.                                 *)
(***************************************************************************)
\* the options New is called with
Options ==
    { Opt("ProjectID", <<"p">>), Opt("ProjectID", EmptyStr),
      Opt("EntriesService", None), Opt("ErrorService", None),
      Opt("HTTPClient", None), Opt("MonitoredResource", None),
      Opt("LogName", <<"app">>), Opt("LogName", EmptyStr),
      Opt("ErrorReportingLogName", <<"errlog">>),
      Opt("ErrorReportingLogName", EmptyStr),
      Opt("ErrorReportingService", <<"svc">>),
      Opt("GoogleServiceAccountCredentialsJSON", None),
      Opt("GoogleLoggingAgent", None),
      Opt("LogErrors", TRUE) }

OptionLists == UNION {[1..n -> Options] : n \in 0..MaxOpts}

\* the option lists of the hooks that entries are fired on
HookOptions ==
    { <<Opt("GoogleServiceAccountCredentialsJSON", None)>>,
      <<Opt("GoogleServiceAccountCredentialsJSON", None),
        Opt("ErrorReportingService", <<"svc">>)>>,
      <<Opt("ProjectID", <<"p">>), Opt("MonitoredResource", None),
        Opt("EntriesService", None), Opt("ErrorReportingService", <<"svc">>)>>,
      <<Opt("GoogleLoggingAgent", None)>>,
      <<Opt("GoogleLoggingAgent", None), Opt("ErrorReportingService", <<"svc">>)>>,
      <<Opt("GoogleServiceAccountCredentialsJSON", None), Opt("LogName", <<"app">>),
        Opt("LogErrors", TRUE)>>,
      <<Opt("GoogleLoggingAgent", None), Opt("ErrorReportingService", <<"svc">>),
        Opt("ErrorReportingLogName", <<"errlog">>), Opt("LogErrors", TRUE)>> }

\* the hooks of the concurrent runs: each backend, with and without a service
\* name, and the API hook that has a service name and no error client
ConcurrentHooks ==
    {o \in HookOptions : \A i \in 1..Len(o) : o[i].kind # "LogErrors"}

AnInboundRequest ==
    [ Method |-> <<"GET">>, URL |-> [String |-> <<"/index">>], RemoteAddr |-> <<"10.0.0.1">>,
      Referer |-> EmptyStr, UserAgent |-> <<"curl">> ]

ADescriptor ==
    [ Referer |-> <<"/from">>, RemoteIp |-> <<"10.0.0.2">>, RequestMethod |-> <<"POST">>,
      RequestUrl |-> <<"/submit">>, UserAgent |-> EmptyStr ]

AFrame == [File |-> <<"main.go">>, Name |-> <<"main.run">>, Line |-> 42]

Entry(level, message, time, data) ==
    [Level |-> level, Message |-> message, Time |-> time, Data |-> data]

At(sec, nsec) == [sec |-> sec, nsec |-> nsec]

\* the entries logrus hands to Fire, with the fields the caller attached
Entries ==
    { Entry(InfoLevel, <<"a random message">>, At(1, 0), <<>>),
      Entry(ErrorLevel, <<"failed">>, At(2, 500),
            [user |-> StringV(<<"alice">>), version |-> StringV(<<"v1">>)]),
      Entry(PanicLevel, <<"giving up">>, At(3, 0),
            [req |-> RequestV(AnInboundRequest), desc |-> DescriptorV(ADescriptor)]),
      Entry(FatalLevel, <<"fatal">>, At(4, 7), [n |-> IntV(15)]),
      Entry(WarnLevel, <<"careful">>, At(5, 0), [user |-> StringV(<<"bob">>)]),
      Entry(DebugLevel, <<"dbg">>, At(6, 0), <<>>),
      Entry(TraceLevel, <<"trc">>, At(7, 0), <<>>),
      Entry(ErrorLevel, <<"located">>, At(8, 0), [caller |-> FrameV(AFrame)]),
      Entry(ErrorLevel, <<"odd caller">>, At(9, 0), [caller |-> StringV(<<"main.go">>)]),
      Entry(InfoLevel, <<"bad request">>, At(10, 0),
            [req |-> RequestV([AnInboundRequest EXCEPT !.URL = NilURL])]),
      Entry(ErrorLevel, <<"failed request">>, At(11, 0),
            [user |-> StringV(<<"alice">>), version |-> StringV(<<"v1">>),
             req |-> RequestV(AnInboundRequest)]),
      Entry(InfoLevel, <<"real message">>, At(12, 0),
            [message |-> StringV(<<"from a field">>)]) }

\* the entries fired concurrently: a plain one, one that is reported as an
\* error, and a panic
Workload ==
    {e \in Entries : e.Message \in {<<"a random message">>, <<"failed request">>, <<"giving up">>,
                     <<"odd caller">>}}

\* the entries whose fields the caller changes after Fire
Mutable ==
    {e \in Entries :
        e.Message \in {<<"a random message">>, <<"failed">>, <<"giving up">>, <<"fatal">>}}

\* what the caller can do to the fields of an entry: add, replace or delete
\* a key
Mutations(data) ==
    {("late" :> StringV(<<"added">>)) @@ data}
      \cup {[data EXCEPT ![k] = StringV(<<"changed">>)] : k \in DOMAIN data}
      \cup {[j \in DOMAIN data \ {k} |-> data[j]] : k \in DOMAIN data}

(***************************************************************************)
(* The state.                                                              *)
(***************************************************************************)
VARIABLES
    opts,        \* the options New was called with
    optIdx,      \* the next option New applies
    hw,          \* the Hook New is building
    newPc,       \* "opts" while New runs, "done" when it returned
    optFailed,   \* an option returned an error
    hook,        \* the Hook New returned, or NoHook
    newErr,      \* the error New returned
    heap,        \* the maps behind the Data of the entries
    entries,     \* the entries of the caller, in the order they were fired
    tasks,       \* the goroutines started by Fire
    calls,       \* the calls made to the backends, in order
    counter,     \* the counter of waitGroup
    fireResults, \* what each call of Fire returned
    waitPc,      \* "idle", "waiting" or "returned": the caller of Wait
    waitFired,   \* the number of entries fired when Wait was called
    mutations,   \* the number of changes the caller made to fired entries
    diag,        \* the lines written with log.Printf and log.Println
    crashed      \* a goroutine panicked

newVars == <<opts, optIdx, hw, newPc, optFailed, hook, newErr>>

fireVars ==
    <<heap, entries, tasks, calls, counter, fireResults, waitPc, waitFired,
      mutations, diag, crashed>>

vars == <<newVars, fireVars>>

InitFire ==
    /\ heap = <<>>
    /\ entries = <<>>
    /\ tasks = <<>>
    /\ calls = <<>>
    /\ counter = 0
    /\ fireResults = <<>>
    /\ waitPc = "idle"
    /\ waitFired = 0
    /\ mutations = 0
    /\ diag = <<>>
    /\ crashed = FALSE

(***************************************************************************)
(* New, one option at a time.                                              *)
(***************************************************************************)
InitNew ==
    /\ opts \in OptionLists
    /\ optIdx = 1
    /\ hw = ZeroHook
    /\ newPc = "opts"
    /\ optFailed = FALSE
    /\ hook = NoHook
    /\ newErr = Nil
    /\ InitFire

\* an option returns nil
OptionApplied ==
    /\ newPc = "opts"
    /\ optIdx <= Len(opts)
    /\ hw' = ApplyOption(hw, opts[optIdx])
    /\ optIdx' = optIdx + 1
    /\ UNCHANGED <<opts, newPc, optFailed, hook, newErr, fireVars>>

\* an option returns an error, and New returns it
OptionFailed ==
    /\ newPc = "opts"
    /\ optIdx <= Len(opts)
    /\ opts[optIdx].kind \in Fallible
    /\ newPc' = "done"
    /\ optFailed' = TRUE
    /\ hook' = NoHook
    /\ newErr' = "option error"
    /\ UNCHANGED <<opts, optIdx, hw, fireVars>>

\* the checks and the defaults after the loop over the options
Validate ==
    /\ newPc = "opts"
    /\ optIdx > Len(opts)
    /\ newPc' = "done"
    /\ newErr' = ValidationError(hw)
    /\ hook' = IF ValidationError(hw) # Nil THEN NoHook ELSE ApplyDefaults(hw)
    /\ UNCHANGED <<opts, optIdx, hw, optFailed, fireVars>>

NextNew == OptionApplied \/ OptionFailed \/ Validate

SpecNew == InitNew /\ [][NextNew]_vars

(***************************************************************************)
(* Fire, the goroutines it starts, and Wait.                               *)
(***************************************************************************)
\* a hook built by New from one of hooks, before any Fire
InitWith(hooks) ==
    /\ opts \in hooks
    /\ optIdx = Len(opts) + 1
    /\ hw = ApplyAll(ZeroHook, opts)
    /\ newPc = "done"
    /\ optFailed = FALSE
    /\ hook = New(opts)[1]
    /\ newErr = New(opts)[2]
    /\ InitFire

Init == InitWith(HookOptions)

InitConcurrent == InitWith(ConcurrentHooks)

WaitGroupAdd_Missing(c) == c

\* waitGroup.Add(1)
WaitGroupAdd(c) == c + 1

\* waitGroup.Done()
WaitGroupDone_Skipped(c) == c

WaitGroupDone(c) == c - 1

copyEntry_SharedData(hp, entry) ==
    <<hp, entry>>

\* copyEntry: a copy of the entry whose Data is a new map with the same keys
\* and values; the result is the heap with the new map, and the copy
copyEntry(hp, entry) ==
    <<Append(hp, hp[entry.Data]), [entry EXCEPT !.Data = Len(hp) + 1]>>

FireResult_DeliveryError(h, entry) ==
    IF isError(entry.Level) THEN "delivery error" ELSE Nil

\* the value Fire returns
FireResult(h, entry) == Nil

\* Fire(entry): add one to the wait group, start the goroutine on a copy of
\* the entry, return; limit bounds the number of entries fired
Fire(e, limit) ==
    /\ hook # NoHook
    /\ ~crashed
    /\ Len(tasks) < limit
    /\ LET callerHeap  == Append(heap, e.Data)
           callerEntry == [e EXCEPT !.Data = Len(heap) + 1]
           copied      == copyEntry(callerHeap, callerEntry)
       IN  /\ heap' = copied[1]
           /\ entries' = Append(entries, callerEntry)
           /\ counter' = WaitGroupAdd(counter)
           /\ tasks' = Append(tasks, [entry |-> copied[2], pc |-> "started",
                                      fired |-> e.Data, call |-> 0, mutated |-> FALSE,
                                      norm |-> None, last |-> None,
                                      unserialized |-> FALSE])
           /\ fireResults' = Append(fireResults, FireResult(hook, callerEntry))
    /\ UNCHANGED <<newVars, calls, waitPc, waitFired, mutations, diag, crashed>>

\* the caller changes the fields of an entry it has fired
MutateData(i) ==
    /\ ~crashed
    /\ mutations < MaxMutations
    /\ i \in 1..Len(entries)
    /\ \E d \in Mutations(heap[entries[i].Data]) :
          heap' = [heap EXCEPT ![entries[i].Data] = d]
    /\ mutations' = mutations + 1
    /\ UNCHANGED <<newVars, entries, tasks, calls, counter, fireResults, waitPc,
                   waitFired, diag, crashed>>

\* the last key of order that holds an HTTP request, None when there is none
RECURSIVE LastHTTP(_, _)
LastHTTP(data, order) ==
    IF order = <<>> THEN None
    ELSE IF IsHTTPValue(data[order[Len(order)]]) THEN <<order[Len(order)]>>
    ELSE LastHTTP(data, SubSeq(order, 1, Len(order) - 1))

\* the goroutine of entry i builds the labels and makes its call to the
\* backend; when the error reporting service is not set it logs that and
\* returns
Deliver(i) ==
    /\ ~crashed
    /\ i \in 1..Len(tasks)
    /\ tasks[i].pc = "started"
    /\ LET entry == tasks[i].entry
           data  == heap[entry.Data]
       IN  /\ ~TaskPanics(hook, entry, data)
           /\ \E order \in Orders(DOMAIN data) :
                LET n == Normalize(data, order)
                    c == Send(hook, entry, data, n.labels, n.httpReq)
                    t == [tasks[i] EXCEPT !.norm = n,
                                          !.last = LastHTTP(data, order),
                                          !.mutated = heap[entries[i].Data] # tasks[i].fired]
                IN  IF c = None
                    THEN /\ diag' = Append(diag, "the error reporting service is not set")
                         /\ tasks' = [tasks EXCEPT ![i] = [t EXCEPT !.pc = "done"]]
                         /\ counter' = WaitGroupDone(counter)
                         /\ calls' = calls
                    ELSE /\ calls' = Append(calls, c @@ [task |-> i, outcome |-> "pending"])
                         /\ tasks' = [tasks EXCEPT
                                        ![i] = [t EXCEPT !.pc = "calling",
                                                         !.call = Len(calls) + 1]]
                         /\ UNCHANGED <<counter, diag>>
    /\ UNCHANGED <<newVars, heap, entries, fireResults, waitPc, waitFired,
                   mutations, crashed>>

\* the goroutine of entry i panics, in the loop over entry.Data or in
\* buildErrorReportingEvent: the deferred Done runs while the panic unwinds
DeliverPanics(i) ==
    /\ ~crashed
    /\ i \in 1..Len(tasks)
    /\ tasks[i].pc = "started"
    /\ TaskPanics(hook, tasks[i].entry, heap[tasks[i].entry.Data])
    /\ tasks' = [tasks EXCEPT ![i].pc = "panicked"]
    /\ counter' = WaitGroupDone(counter)
    /\ UNCHANGED <<newVars, heap, entries, calls, fireResults, waitPc, waitFired,
                   mutations, diag, crashed>>

\* sendLogMessageViaAgent, when json.Marshal of the error event returns an
\* error, or json.Unmarshal alone does: each error is logged, Unmarshal
\* leaves errorJSONPayload a nil map, and the loop that copies logEntry into
\* it panics before Post
DeliverMarshalFails(i, marshal) ==
    /\ ~crashed
    /\ i \in 1..Len(tasks)
    /\ tasks[i].pc = "started"
    /\ hook.agentClient
    /\ BuildsErrorEvent(hook, tasks[i].entry)
    /\ ~TaskPanics(hook, tasks[i].entry, heap[tasks[i].entry.Data])
    /\ diag' = IF marshal
               THEN diag \o <<"error marshaling error reporting data",
                              "error parsing error reporting data">>
               ELSE Append(diag, "error parsing error reporting data")
    /\ tasks' = [tasks EXCEPT ![i].pc = "panicked", ![i].unserialized = TRUE]
    /\ counter' = WaitGroupDone(counter)
    /\ UNCHANGED <<newVars, heap, entries, calls, fireResults, waitPc, waitFired,
                   mutations, crashed>>

\* the panic of goroutine i, which nothing recovers, ends the process; the
\* other goroutines run until it does
FatalPanic(i) ==
    /\ ~crashed
    /\ i \in 1..Len(tasks)
    /\ tasks[i].pc = "panicked"
    /\ crashed' = TRUE
    /\ UNCHANGED <<newVars, heap, entries, tasks, calls, counter, fireResults,
                   waitPc, waitFired, mutations, diag>>

\* the call of goroutine i returns, with or without an error; an error is
\* logged; the goroutine ends and the deferred Done runs
Finish(i, ok) ==
    /\ ~crashed
    /\ i \in 1..Len(tasks)
    /\ tasks[i].pc = "calling"
    /\ calls' = [calls EXCEPT ![tasks[i].call].outcome = IF ok THEN "ok" ELSE "error"]
    /\ diag' = IF ok THEN diag
               ELSE Append(diag,
                      CASE calls[tasks[i].call].kind = "Report" -> "cannot report event"
                        [] calls[tasks[i].call].kind = "Write" -> "cannot deliver log entry"
                        [] calls[tasks[i].call].kind = "Post" ->
                             "error posting entries to logging agent")
    /\ tasks' = [tasks EXCEPT ![i].pc = "done"]
    /\ counter' = WaitGroupDone(counter)
    /\ UNCHANGED <<newVars, heap, entries, fireResults, waitPc, waitFired,
                   mutations, crashed>>

\* Wait is called
WaitCalled ==
    /\ hook # NoHook
    /\ ~crashed
    /\ waitPc = "idle"
    /\ waitPc' = "waiting"
    /\ waitFired' = Len(tasks)
    /\ UNCHANGED <<newVars, heap, entries, tasks, calls, counter, fireResults,
                   mutations, diag, crashed>>

\* waitGroup.Wait returns when the counter is zero
WaitReturns ==
    /\ ~crashed
    /\ waitPc = "waiting"
    /\ counter = 0
    /\ waitPc' = "returned"
    /\ UNCHANGED <<newVars, heap, entries, tasks, calls, counter, fireResults,
                   waitFired, mutations, diag, crashed>>

\* several entries of a few kinds are fired while earlier ones are delivered
Next ==
    \/ \E e \in Workload : Fire(e, MaxFires)
    \/ \E i \in 1..MaxFires : Deliver(i)
    \/ \E i \in 1..MaxFires : DeliverPanics(i)
    \/ \E i \in 1..MaxFires, marshal \in BOOLEAN : DeliverMarshalFails(i, marshal)
    \/ \E i \in 1..MaxFires : FatalPanic(i)
    \/ \E i \in 1..MaxFires, ok \in BOOLEAN : Finish(i, ok)
    \/ WaitCalled
    \/ WaitReturns

Spec == InitConcurrent /\ [][Next]_vars

\* every kind of entry is fired on every kind of hook
NextEntry ==
    \/ \E e \in Entries : Fire(e, MaxEntryFires)
    \/ \E i \in 1..MaxEntryFires : Deliver(i)
    \/ \E i \in 1..MaxEntryFires : DeliverPanics(i)
    \/ \E i \in 1..MaxEntryFires, marshal \in BOOLEAN : DeliverMarshalFails(i, marshal)
    \/ \E i \in 1..MaxEntryFires : FatalPanic(i)
    \/ \E i \in 1..MaxEntryFires, ok \in BOOLEAN : Finish(i, ok)

SpecEntry == Init /\ [][NextEntry]_vars

\* the caller goes on changing the fields of the entries it has fired
NextCaller ==
    \/ \E e \in Mutable : Fire(e, MaxCallerFires)
    \/ \E i \in 1..MaxCallerFires : MutateData(i)
    \/ \E i \in 1..MaxCallerFires : Deliver(i)
    \/ \E i \in 1..MaxCallerFires, ok \in BOOLEAN : Finish(i, ok)

SpecCaller == Init /\ [][NextCaller]_vars

(***************************************************************************)
(* Properties.                                                             *)
(***************************************************************************)
\* the severities the routing rule is stated for
ErrorSeverities == {"error", "fatal", "panic"}

TaskCalls(i) == {j \in 1..Len(calls) : calls[j].task = i}

LevelOf(i) == tasks[i].entry.Level

ServiceNamed == hook.errorReportingServiceName # EmptyStr

\* entry i is one the API backend builds an error event for and then has no
\* client to report it with
Unreported(i) ==
    /\ ~hook.agentClient
    /\ ~hook.errorService
    /\ ServiceNamed
    /\ LevelOf(i) \in ErrorSeverities

\* Wait returned, and no entry was fired since it was called
Drained == waitPc = "returned" /\ Len(tasks) = waitFired

ErrorPathCall(c) ==
    IF hook.agentClient
    THEN /\ c.kind = "Post"
         /\ c.logName = hook.errorReportingLogName
         /\ "serviceContext" \in DOMAIN c.request
    ELSE /\ c.kind = "Report"
         /\ c.projectID = hook.projectID

\* a call that sends a plain log entry
PlainCall(c) ==
    IF hook.agentClient
    THEN c.kind = "Post" /\ "serviceContext" \notin DOMAIN c.request
    ELSE c.kind = "Write"

\* the goroutine of entry i has gone past its call to the backend
Delivered(i) == tasks[i].pc \in {"calling", "done"}

ErrorRouted(i) == LevelOf(i) \in ErrorSeverities /\ ServiceNamed

C5_LogErrorsKeepsRegularLog ==
    \A i \in 1..Len(tasks) :
        (Delivered(i) /\ hook.logErrors /\ LevelOf(i) \in ErrorSeverities) =>
            /\ TaskCalls(i) # {}
            /\ \A j \in TaskCalls(i) :
                  /\ calls[j].kind \in {"Write", "Post"}
                  /\ calls[j].logName = hook.logName

\* C6: in the step in which Fire returns for a panic entry, the delivery of
\* that entry has completed and the counter of the wait group is 0.
C6_PanicIsSynchronous ==
    [][(Len(tasks') > Len(tasks) /\ tasks'[Len(tasks')].entry.Level = "panic") =>
          /\ tasks'[Len(tasks')].pc = "done"
          /\ counter' = 0]_vars

\* the severity string the claim gives for each level
ClaimedSeverity(l) ==
    CASE l = "fatal"   -> <<"C", "R", "I", "T", "I", "C", "A", "L">>
      [] l = "panic"   -> <<"E", "M", "E", "R", "G", "E", "N", "C", "Y">>
      [] l = "trace"   -> <<"T", "R", "A", "C", "E">>
      [] l = "debug"   -> <<"D", "E", "B", "U", "G">>
      [] l = "info"    -> <<"I", "N", "F", "O">>
      [] l = "warning" -> <<"W", "A", "R", "N", "I", "N", "G">>
      [] l = "error"   -> <<"E", "R", "R", "O", "R">>

\* the severity a Write or a Post carries
SeverityIn(c) ==
    IF c.kind = "Write" THEN c.request.Entries[1].Severity ELSE c.request["severity"]

\* C7: the severity string of every delivered entry is CRITICAL for fatal,
\* EMERGENCY for panic and the upper case level name for every other level.
C7_SeverityStrings ==
    \A j \in 1..Len(calls) :
        calls[j].kind \in {"Write", "Post"} =>
            SeverityIn(calls[j]) = ClaimedSeverity(LevelOf(calls[j].task))

\* what the options given to New set, read off the option list
Given(kinds) == \E i \in 1..Len(opts) : opts[i].kind \in kinds

SetsProject(o) == o.kind \in {"ProjectID", "GoogleServiceAccountCredentialsJSON"}

ProjectGiven ==
    \E i \in 1..Len(opts) :
        /\ SetsProject(opts[i])
        /\ opts[i].kind = "ProjectID" => opts[i].arg # <<>>
        /\ \A j \in (i + 1)..Len(opts) : ~SetsProject(opts[j])

AgentGiven == Given({"GoogleLoggingAgent"})

ServiceGiven ==
    Given({"EntriesService", "HTTPClient", "GoogleServiceAccountCredentialsJSON"})

ResourceGiven == Given({"MonitoredResource", "GoogleServiceAccountCredentialsJSON"})

\* New has returned and no option returned an error
NewReturned == newPc = "done" /\ ~optFailed

\* C8: when no option returns an error, New returns a hook exactly when an
\* agent handle is set, or an entries service, a monitored resource and a
\* non-empty project ID are all set; otherwise it returns an error and no
\* hook.
C8_ConstructionValidation ==
    NewReturned =>
        /\ (hook # NoHook) <=>
              (AgentGiven \/ (ServiceGiven /\ ResourceGiven /\ ProjectGiven))
        /\ (hook = NoHook) <=> (newErr # Nil)

C8_Witness ==
    /\ NewReturned
    /\ hook = NoHook
    /\ newErr # Nil
    /\ ServiceGiven
    /\ ResourceGiven
    /\ ~ProjectGiven
    /\ ~AgentGiven

LogNameArgs == {opts[i].arg : i \in {j \in 1..Len(opts) : opts[j].kind = "LogName"}}

\* the name the claim speaks of: the one passed to LogName, "default" when
\* LogName was not given
ClaimedName ==
    IF LogNameArgs = {} THEN <<"default">>
    ELSE opts[CHOOSE i \in 1..Len(opts) :
                /\ opts[i].kind = "LogName"
                /\ \A j \in (i + 1)..Len(opts) : opts[j].kind # "LogName"].arg

\* C9: whatever the order of the options, the log name of the hook New
\* returns is projects/{project}/logs/{name} when the project ID of the hook
\* is not empty and {name} when it is (stated for the option lists that pass
\* no empty name to LogName).
C9_LogNameFormat ==
    (NewReturned /\ hook # NoHook /\ <<>> \notin LogNameArgs) =>
        hook.logName =
            IF hook.projectID # <<>>
            THEN <<"projects/">> \o hook.projectID \o <<"/logs/">> \o ClaimedName
            ELSE ClaimedName

\* the fields of entry i that hold an HTTP request
HTTPKeys(f) == {k \in DOMAIN f : f[k].t \in {"*http.Request", "*logging.HttpRequest"}}

\* the labels the fields of an entry stand for
LabelsOf(f) ==
    [k \in DOMAIN f \ HTTPKeys(f) |->
        IF f[k].t = "string" THEN f[k].s ELSE SprintfV(f[k])]

\* the HTTP descriptors the fields of an entry can yield
DescriptorsOf(f) ==
    IF HTTPKeys(f) = {} THEN {None}
    ELSE {IF f[k].t = "*logging.HttpRequest" THEN f[k].d ELSE FromRequest(f[k].r) :
            k \in HTTPKeys(f)}

\* the keys of a posted record that are not labels
RecordKeys ==
    {"severity", "timestampSeconds", "timestampNanos", "message", "httpRequest",
     "eventTime", "serviceContext", "context"}

\* the labels and the HTTP descriptor call c carries are those of fields f
CarriesFields(c, f) ==
    CASE c.kind = "Write" ->
           /\ c.request.Entries[1].Labels = LabelsOf(f)
           /\ c.request.Entries[1].HttpRequest \in DescriptorsOf(f)
      [] c.kind = "Post" ->
           /\ DOMAIN c.request \ RecordKeys = DOMAIN LabelsOf(f)
           /\ \A k \in DOMAIN LabelsOf(f) : c.request[k] = LabelsOf(f)[k]
           /\ IF "httpRequest" \in DOMAIN c.request
              THEN c.request["httpRequest"] \in DescriptorsOf(f) \ {None}
              ELSE None \in DescriptorsOf(f)
      [] c.kind = "Report" ->
           /\ c.request.ServiceContext.Version = Lookup(LabelsOf(f), "version")
           /\ c.request.Context.User = Lookup(LabelsOf(f), "user")
           /\ \E d \in DescriptorsOf(f) :
                 IF d = None THEN c.request.Context.HttpRequest = None
                 ELSE /\ c.request.Context.HttpRequest # None
                      /\ c.request.Context.HttpRequest.Method = d.RequestMethod
                      /\ c.request.Context.HttpRequest.Url = d.RequestUrl
                      /\ c.request.Context.HttpRequest.Referrer = d.Referer
                      /\ c.request.Context.HttpRequest.RemoteIp = d.RemoteIp
                      /\ c.request.Context.HttpRequest.UserAgent = d.UserAgent

\* C10: the labels and the HTTP descriptor of every call are those of the
\* fields the entry had when Fire was called, whatever the caller did to the
\* fields of the entry after Fire returned.
C10_SnapshotIsolation ==
    \A j \in 1..Len(calls) : CarriesFields(calls[j], tasks[calls[j].task].fired)

\* a call was made for an entry whose fields the caller had changed before
C10_Witness ==
    \E j \in 1..Len(calls) :
        /\ tasks[calls[j].task].mutated
        /\ DOMAIN tasks[calls[j].task].fired # {}

\* C11, as stated: whatever entry is fired, on whatever hook, and whatever the
\* backend or the serialization answers, no goroutine of Fire panics and the
\* process is never brought down.
C11_NoTaskPanics ==
    /\ ~crashed
    /\ \A i \in 1..Len(tasks) : tasks[i].pc # "panicked"

\* the label the fields f of an entry give for key k, empty when they give none
FieldLabel(f, k) ==
    IF k \in DOMAIN f /\ k \notin HTTPKeys(f)
    THEN IF f[k].t = "string" THEN f[k].s ELSE SprintfV(f[k])
    ELSE EmptyStr

\* a member of a JSON object, empty when the object does not have it
JSONMember(obj, k) == IF k \in DOMAIN obj THEN obj[k] ELSE EmptyStr

\* the error event of call c, as the backend receives it: the request of a
\* Report, the members of the record of a Post
EventOf(c) ==
    IF c.kind = "Report"
    THEN [ service |-> c.request.ServiceContext.Service,
           version |-> c.request.ServiceContext.Version,
           user    |-> c.request.Context.User,
           message |-> c.request.Message,
           hasHTTP |-> c.request.Context.HttpRequest # None ]
    ELSE [ service |-> JSONMember(c.request["serviceContext"].obj, "service"),
           version |-> JSONMember(c.request["serviceContext"].obj, "version"),
           user    |-> JSONMember(c.request["context"].obj, "user"),
           message |-> JSONMember(c.request, "message"),
           hasHTTP |-> "httpRequest" \in DOMAIN c.request["context"].obj ]

OnlyStrings(f) == \A k \in DOMAIN f : f[k].t = "string"

\* the fields f as a map of strings
StringsOf(f) == [k \in DOMAIN f |-> f[k].s]

\* the labels and the HTTP descriptor a Write or a Post hands to the backend
DeliveredLabels(c) ==
    IF c.kind = "Write" THEN c.request.Entries[1].Labels
    ELSE [k \in {x \in DOMAIN c.request :
                    x \notin RecordKeys \/ x \in DOMAIN tasks[c.task].norm.labels}
            |-> c.request[k]]

DeliveredHTTP(c) ==
    IF c.kind = "Write" THEN c.request.Entries[1].HttpRequest
    ELSE IF "httpRequest" \in DOMAIN c.request THEN c.request["httpRequest"] ELSE None

OneOfEach(f) ==
    /\ Cardinality({k \in DOMAIN f : f[k].t = "*http.Request"}) = 1
    /\ Cardinality({k \in DOMAIN f : f[k].t = "*logging.HttpRequest"}) = 1

\* the HTTP descriptor field value v stands for
DescriptorOf(v) == IF v.t = "*logging.HttpRequest" THEN v.d ELSE FromRequest(v.r)

\* C14: for an entry with one inbound request field and one HTTP descriptor
\* field, the loop of Fire yields one HTTP descriptor, the one of the field
\* it visited last, neither key is a label, and a Write or a Post hands that
\* descriptor and those labels to the backend.
C14_LastHTTPFieldWins ==
    /\ \A i \in 1..Len(tasks) :
          (OneOfEach(tasks[i].fired) /\ Delivered(i)) =>
              /\ tasks[i].last # None
              /\ tasks[i].norm.httpReq = DescriptorOf(tasks[i].fired[tasks[i].last[1]])
              /\ DOMAIN tasks[i].norm.labels \cap HTTPKeys(tasks[i].fired) = {}
    /\ \A j \in 1..Len(calls) :
          (OneOfEach(tasks[calls[j].task].fired) /\ calls[j].kind # "Report") =>
              LET t == tasks[calls[j].task]
              IN  /\ DeliveredHTTP(calls[j]) = DescriptorOf(t.fired[t.last[1]])
                  /\ DOMAIN DeliveredLabels(calls[j]) \cap HTTPKeys(t.fired) = {}

\* the inbound request was visited last, after the descriptor, and the
\* backend was handed the descriptor made from the request
C14_Witness ==
    \E j \in 1..Len(calls) :
        /\ calls[j].kind # "Report"
        /\ OneOfEach(tasks[calls[j].task].fired)
        /\ tasks[calls[j].task].last = <<"req">>
        /\ DeliveredHTTP(calls[j]) = FromRequest(AnInboundRequest)

\* goroutines i and j were given entries with the same fields and have both
\* gone through the loop of Fire
SameFields(i, j) ==
    /\ i # j
    /\ Delivered(i)
    /\ Delivered(j)
    /\ tasks[i].fired = tasks[j].fired

\* C15, as stated: the loop of Fire, run twice on the same fields, builds the
\* same labels and the same HTTP descriptor, whatever the fields are.
C15_Idempotent ==
    \A i, j \in 1..Len(tasks) :
        SameFields(i, j) => tasks[i].norm = tasks[j].norm

\* C15, amended: the loop of Fire, run twice on the same fields, builds the
\* same labels; it builds the same HTTP descriptor when at most one field is
\* HTTP-valued, and otherwise each run builds the descriptor of one of the
\* HTTP-valued fields, not always of the same one.
C15_IdempotentLabels ==
    \A i, j \in 1..Len(tasks) :
        SameFields(i, j) =>
            /\ tasks[i].norm.labels = tasks[j].norm.labels
            /\ Cardinality(HTTPKeys(tasks[i].fired)) <= 1 =>
                   tasks[i].norm.httpReq = tasks[j].norm.httpReq
            /\ tasks[i].norm.httpReq \in DescriptorsOf(tasks[i].fired)

\* the entry with two labels and one inbound request went through the loop
\* twice
C15_Witness ==
    \E i, j \in 1..Len(tasks) :
        /\ SameFields(i, j)
        /\ Cardinality(HTTPKeys(tasks[i].fired)) = 1
        /\ DOMAIN tasks[i].norm.labels = {"user", "version"}

\* the positions of opts that hold an ErrorReportingLogName option
ErrorNameOpts == {i \in 1..Len(opts) : opts[i].kind = "ErrorReportingLogName"}

\* the name the last ErrorReportingLogName option was given, empty when the
\* option was not given
GivenErrorName ==
    IF ErrorNameOpts = {} THEN EmptyStr
    ELSE opts[CHOOSE i \in ErrorNameOpts : \A j \in ErrorNameOpts : j <= i].arg

C17_SerializationFailureSkipsPost ==
    \A i \in 1..Len(tasks) :
        tasks[i].unserialized =>
            /\ \E n \in 1..Len(diag) : diag[n] = "error parsing error reporting data"
            /\ TaskCalls(i) = {}
            /\ tasks[i].pc # "panicked"
            /\ ~crashed

(***************************************************************************)
(* The concurrent runs under the scheduling the Go runtime gives: a        *)
(* goroutine that can take a step takes it, a call to a backend returns,   *)
(* an unrecovered panic ends the process.  Fire and the call to Wait are   *)
(* up to the caller and get no fairness.                                   *)
(***************************************************************************)
\* a step of the goroutine of entry i
TaskStep(i) ==
    \/ Deliver(i)
    \/ DeliverPanics(i)
    \/ \E marshal \in BOOLEAN : DeliverMarshalFails(i, marshal)
    \/ \E ok \in BOOLEAN : Finish(i, ok)
    \/ FatalPanic(i)

Fairness ==
    /\ \A i \in 1..MaxFires : WF_vars(TaskStep(i))
    /\ WF_vars(WaitReturns)

SpecFair == Spec /\ Fairness

\* C18, as stated: when every call to a backend returns and Fire is no longer
\* called, a Wait that was called returns.
C18_WaitReturns == (waitPc = "waiting") ~> (waitPc = "returned")

\* the goroutine of entry i has ended, by returning or by panicking
Ended(i) == tasks[i].pc \in {"done", "panicked"}

InFlight == {i \in 1..Len(tasks) : ~Ended(i)}

\* C20: the counter of the wait group is the number of goroutines launched
\* by Fire that have not ended, and so is never negative; an entry is counted
\* from the moment its Fire has returned, so that once Wait has returned the
\* goroutine of every entry fired before Wait was called has ended.
C20_CounterIsInFlight ==
    /\ counter = Cardinality(InFlight)
    /\ counter >= 0
    /\ waitPc = "returned" => \A i \in 1..waitFired : Ended(i)

\* Wait was called after one Fire and has returned, while the goroutine of
\* an entry fired later is still running
C20_Witness ==
    /\ waitPc = "returned"
    /\ waitFired = 1
    /\ Len(tasks) = 2
    /\ tasks[1].pc = "done"
    /\ tasks[2].pc = "calling"
    /\ counter = 1

\* C21, as stated: whatever the fields of the entry, the record of every
\* Post has the severity string of the entry under "severity", its message
\* under "message", the seconds and the nanoseconds of its time under
\* "timestampSeconds" and "timestampNanos", every label under its key, and
\* "httpRequest" exactly when the loop of Fire built an HTTP descriptor.
C21_AgentRecord ==
    \A j \in 1..Len(calls) :
        calls[j].kind = "Post" =>
            LET t   == tasks[calls[j].task]
                rec == calls[j].request
            IN  /\ rec["severity"] = severityString(t.entry.Level)
                /\ rec["message"] = t.entry.Message
                /\ rec["timestampSeconds"] = FormatInt(t.entry.Time.sec)
                /\ rec["timestampNanos"] = FormatInt(t.entry.Time.nsec)
                /\ \A k \in DOMAIN t.norm.labels :
                      k \in DOMAIN rec /\ rec[k] = t.norm.labels[k]
                /\ ("httpRequest" \in DOMAIN rec) <=> (t.norm.httpReq # None)

====
